---------------------------- MODULE Spec2Model ----------------------------
(***************************************************************************)
(* A model of libdeep's Differentiable Neural Computer memory module       *)
(* (src/src/deeplearn_dnc.c): one deeplearn_dnc instance, the heap blocks  *)
(* it owns, and the calls init / feed_forward / update / clear_memory /    *)
(* free made on it by a single-threaded caller.                            *)
(*                                                                         *)
(* Pointers are pairs <<kind, index>>: the name of the heap block they     *)
(* point to, or NULL, or UNINIT (an indeterminate value: a field or a      *)
(* malloc'ed slot that was never assigned).  A float cell is the set of    *)
(* values a read of it may return: malloc leaves every cell indeterminate  *)
(* (any value), memset leaves {0}.                                         *)
(***************************************************************************)
EXTENDS Integers, Sequences, FiniteSets, TLC

(* ---- build-time constants of deeplearn_dnc.h ---- *)
DEEPLEARNDNC_READ_HEADS == 2
DEEPLEARNDNC_WRITE_HEADS == 1
DEEPLEARNDNC_USAGE_BLOCK_SIZE == 16

(* sizeof(float) on every supported ABI *)
SizeofFloat == 4

(* ---- bounds of the model ---- *)
MaxMemorySize == 33
MaxMemoryWidth == 2
MaxInputs == 2
MaxOutputs == 1
MaxStatus == 2
MaxVal == 1
MaxCalls == 2

Heads == DEEPLEARNDNC_READ_HEADS + DEEPLEARNDNC_WRITE_HEADS

NULL == <<"NULL", 0>>
UNINIT == <<"UNINIT", 0>>

\* the values a float may hold; an indeterminate float may read as any of them
FloatVals == 0..MaxVal
Indeterminate == FloatVals
Zero == {0}

\* the statuses the controller network's initialiser may return (0: success)
ControllerStatus == (0 - MaxStatus)..MaxStatus

VARIABLES
    pc,             \* lifecycle of the instance, as the caller sees it
    sizeof_ptr,     \* sizeof(float*) of the build: 4 or 8
    args,           \* the arguments init was called with
    retval,         \* what init returned
    failed_stage,   \* the step of init that failed ("none": none did)
    learner,        \* the deeplearn_dnc instance
    indeterminate,  \* scalar fields of the instance never assigned
    heap,           \* block name -> [live, cells]
    controller,     \* the controller network (external collaborator)
    mallocs,        \* blocks returned by malloc, in call order
    frees,          \* blocks handed to free, in call order
    calls,          \* the callees the last operation invoked, in order
    writes,         \* the memset writes of the last clear_memory
    ub,             \* undefined behaviour met so far
    ncalls          \* operations performed on the Ready instance

vars == <<pc, sizeof_ptr, args, retval, failed_stage, learner, indeterminate, heap,
          controller, mallocs, frees, calls, writes, ub, ncalls>>

(* ------------------------------------------------------------------ *)
(* The instance before init: every field holds whatever the caller's  *)
(* storage held.                                                      *)
(* ------------------------------------------------------------------ *)
learner0 ==
    [controller |-> UNINIT,
     memory |-> [size |-> 0, width |-> 0,
                 address |-> UNINIT,
                 usage |-> UNINIT,
                 usage_temporal |-> [h \in 0..(Heads - 1) |-> UNINIT]],
     read_head |-> [i \in 0..(DEEPLEARNDNC_READ_HEADS - 1) |-> [key |-> UNINIT]],
     write_head |-> [i \in 0..(DEEPLEARNDNC_WRITE_HEADS - 1) |->
                        [write |-> UNINIT, erase |-> UNINIT, key |-> UNINIT]],
     no_of_inputs |-> 0,
     no_of_outputs |-> 0]

controller0 ==
    [initialised |-> FALSE, no_of_inputs |-> 0, no_of_outputs |-> 0,
     status |-> 0, passes |-> 0, updates |-> 0, freed |-> FALSE]

NoArgs == [memory_size |-> 0, memory_width |-> 0,
           no_of_inputs |-> 0, no_of_outputs |-> 0]

EmptyHeap == [b \in {} |-> [live |-> FALSE, cells |-> <<>>]]

Init ==
    /\ pc = "Uninitialized"
    /\ sizeof_ptr \in {4, 8}
    /\ args = NoArgs
    /\ retval = 0
    /\ failed_stage = "none"
    /\ learner = learner0
    /\ indeterminate = {"memory.size", "memory.width", "no_of_inputs", "no_of_outputs"}
    /\ heap = EmptyHeap
    /\ controller = controller0
    /\ mallocs = <<>>
    /\ frees = <<>>
    /\ calls = <<>>
    /\ writes = {}
    /\ ub = {}
    /\ ncalls = 0

(* ------------------------------------------------------------------ *)
(* malloc: the n-th call of an init returns NULL when n = fail_at,     *)
(* otherwise a fresh block of len cells, each holding `fill`.          *)
(* st = [learner, heap, mallocs, n, fail_at, ret]                      *)
(* ------------------------------------------------------------------ *)
MallocFails(st) == st.n + 1 = st.fail_at

Malloc(st, block, len, fill) ==
    IF MallocFails(st)
    THEN [st EXCEPT !.n = st.n + 1]
    ELSE [st EXCEPT !.n = st.n + 1,
                    !.mallocs = Append(st.mallocs, block),
                    !.heap = (block :> [live |-> TRUE,
                                        cells |-> [j \in 0..(len - 1) |-> fill]])
                             @@ st.heap]

MallocResult(st, block) == IF MallocFails(st) THEN NULL ELSE block


(* ------------------------------------------------------------------ *)
(* deeplearn_dnc_init_memory                                          *)
(* ------------------------------------------------------------------ *)
\* a plausible slip: the requested size taken as it is
memory_size_unrounded(memory_size) == memory_size

\* (memory_size/USAGE_BLOCK_SIZE)*USAGE_BLOCK_SIZE, in C's integer division
memory_size_rounded(memory_size) ==
    (memory_size \div DEEPLEARNDNC_USAGE_BLOCK_SIZE) * DEEPLEARNDNC_USAGE_BLOCK_SIZE

\* what malloc leaves in a float buffer
malloc_fill == Indeterminate

Min(a, b) == IF a < b THEN a ELSE b

\* the loop "for (i = 0; i < size; i++) address[i] = malloc(width floats)",
\* which returns 2 at the first malloc that fails: iteration k (k = size when
\* none fails).  Slots below k point to their vectors, slot k holds NULL, the
\* slots above k are never written.
init_memory_vectors(st) ==
    LET size  == st.learner.memory.size
        width == st.learner.memory.width
        table == <<"address_table", 0>>
        k     == IF st.fail_at > st.n /\ st.fail_at <= st.n + size
                 THEN st.fail_at - st.n - 1
                 ELSE size
        fresh == {<<"address", i>> : i \in 0..(k - 1)}
    IN  [st EXCEPT
            !.n = st.n + Min(k + 1, size),
            !.mallocs = st.mallocs \o [i \in 1..k |-> <<"address", i - 1>>],
            !.heap = [b \in DOMAIN st.heap \cup fresh |->
                IF b = table
                THEN [st.heap[table] EXCEPT !.cells =
                        [i \in 0..(size - 1) |->
                            IF i < k THEN <<"address", i>>
                            ELSE IF i = k THEN NULL
                            ELSE st.heap[table].cells[i]]]
                ELSE IF b \in fresh
                THEN [live |-> TRUE, cells |-> [j \in 0..(width - 1) |-> malloc_fill]]
                ELSE st.heap[b]],
            !.ret = IF k < size THEN 2 ELSE 0]

deeplearn_dnc_init_memory(st, memory_size, memory_width) ==
    LET size == memory_size_rounded(memory_size)
        p    == MallocResult(st, <<"address_table", 0>>)
        s0   == [st EXCEPT !.learner.memory.size = size,
                           !.learner.memory.width = memory_width,
                           !.learner.memory.address = p]
        s1   == Malloc(s0, <<"address_table", 0>>, size, UNINIT)
    IN  IF p = NULL
        THEN [s1 EXCEPT !.ret = 1]
        ELSE init_memory_vectors(s1)

(* ------------------------------------------------------------------ *)
(* deeplearn_dnc_init_memory_usage                                    *)
(* ------------------------------------------------------------------ *)
memory_usage_size(l) == l.memory.size \div DEEPLEARNDNC_USAGE_BLOCK_SIZE

RECURSIVE init_usage_temporal(_, _)
init_usage_temporal(st, i) ==
    IF i >= DEEPLEARNDNC_READ_HEADS + DEEPLEARNDNC_WRITE_HEADS
    THEN [st EXCEPT !.ret = 0]
    ELSE LET mus == memory_usage_size(st.learner)
             p   == MallocResult(st, <<"usage_temporal", i>>)
             s1  == Malloc(st, <<"usage_temporal", i>>, mus * mus, malloc_fill)
             s2  == [s1 EXCEPT !.learner.memory.usage_temporal[i] = p]
         IN  IF p = NULL
             THEN [s2 EXCEPT !.ret = 2]
             ELSE init_usage_temporal(s2, i + 1)

\* a plausible slip: the result of the usage vector's malloc not checked
init_memory_usage_unchecked(st) ==
    LET mus == memory_usage_size(st.learner)
        p   == MallocResult(st, <<"usage", 0>>)
        s1  == Malloc(st, <<"usage", 0>>, mus, malloc_fill)
        s2  == [s1 EXCEPT !.learner.memory.usage = p]
    IN  init_usage_temporal(s2, 0)

deeplearn_dnc_init_memory_usage(st) ==
    LET mus == memory_usage_size(st.learner)
        p   == MallocResult(st, <<"usage", 0>>)
        s1  == Malloc(st, <<"usage", 0>>, mus, malloc_fill)
        s2  == [s1 EXCEPT !.learner.memory.usage = p]
    IN  IF p = NULL
        THEN [s2 EXCEPT !.ret = 1]
        ELSE init_usage_temporal(s2, 0)

(* ------------------------------------------------------------------ *)
(* deeplearn_dnc_init_heads                                           *)
(* ------------------------------------------------------------------ *)
RECURSIVE init_read_heads(_, _)
init_read_heads(st, i) ==
    IF i >= DEEPLEARNDNC_READ_HEADS
    THEN [st EXCEPT !.ret = 0]
    ELSE LET p  == MallocResult(st, <<"read_head.key", i>>)
             s1 == Malloc(st, <<"read_head.key", i>>, st.learner.memory.width, malloc_fill)
             s2 == [s1 EXCEPT !.learner.read_head[i].key = p]
         IN  IF p = NULL
             THEN [s2 EXCEPT !.ret = 1]
             ELSE init_read_heads(s2, i + 1)

RECURSIVE init_write_heads(_, _)
init_write_heads(st, i) ==
    IF i >= DEEPLEARNDNC_WRITE_HEADS
    THEN [st EXCEPT !.ret = 0]
    ELSE LET width == st.learner.memory.width
             pw == MallocResult(st, <<"write_head.write", i>>)
             a1 == Malloc(st, <<"write_head.write", i>>, width, malloc_fill)
             a2 == [a1 EXCEPT !.learner.write_head[i].write = pw]
             pe == MallocResult(a2, <<"write_head.erase", i>>)
             b1 == Malloc(a2, <<"write_head.erase", i>>, width, malloc_fill)
             b2 == [b1 EXCEPT !.learner.write_head[i].erase = pe]
             pk == MallocResult(b2, <<"write_head.key", i>>)
             c1 == Malloc(b2, <<"write_head.key", i>>, width, malloc_fill)
             c2 == [c1 EXCEPT !.learner.write_head[i].key = pk]
         IN  IF pw = NULL THEN [a2 EXCEPT !.ret = 2]
             ELSE IF pe = NULL THEN [b2 EXCEPT !.ret = 3]
             ELSE IF pk = NULL THEN [c2 EXCEPT !.ret = 4]
             ELSE init_write_heads(c2, i + 1)

deeplearn_dnc_init_heads(st) ==
    LET s1 == init_read_heads(st, 0)
    IN  IF s1.ret # 0 THEN s1 ELSE init_write_heads(s1, 0)

(* ------------------------------------------------------------------ *)
(* The controller network (deeplearn.c, not part of this module):     *)
(* deeplearn_init records the widths it was given and returns a       *)
(* status, zero on success.                                           *)
(* ------------------------------------------------------------------ *)
deeplearn_init(c, no_of_inputs, no_of_outputs, status) ==
    [c EXCEPT !.initialised = (status = 0),
              !.no_of_inputs = no_of_inputs,
              !.no_of_outputs = no_of_outputs,
              !.status = status]

deeplearn_feed_forward(c) ==
    [c EXCEPT !.passes = c.passes + 1]

deeplearn_update(c) ==
    [c EXCEPT !.updates = c.updates + 1]

deeplearn_free(c) ==
    [c EXCEPT !.freed = TRUE]

(* ------------------------------------------------------------------ *)
(* deeplearn_dnc_init                                                 *)
(* ------------------------------------------------------------------ *)
\* a plausible slip: the write heads counted where the read heads are meant
controller_inputs_swapped(no_of_inputs, memory_width) ==
    no_of_inputs + (memory_width * DEEPLEARNDNC_WRITE_HEADS)

controller_inputs(no_of_inputs, memory_width) ==
    no_of_inputs + (memory_width * DEEPLEARNDNC_READ_HEADS)

controller_outputs(no_of_outputs, memory_width) ==
    no_of_outputs +
    (memory_width * DEEPLEARNDNC_WRITE_HEADS) +
    ((memory_width + 3) * DEEPLEARNDNC_READ_HEADS)

\* the malloc calls of an init in which none fails
init_malloc_calls(memory_size) ==
    1 + 1 + memory_size_rounded(memory_size) + 1 + Heads +
    DEEPLEARNDNC_READ_HEADS + (3 * DEEPLEARNDNC_WRITE_HEADS)

\* a plausible slip: every failure returned under the same tag
failure_code_one_tag(stage, r) == 1000 + r

\* the value init returns when `stage` fails with the sub-call's result r.
\* retval is an unsigned int and the sum is converted back to int: for
\* |r| < 2^31 - 5000 that is the signed sum.
failure_code(stage, r) ==
    CASE stage = "controller_alloc" -> 1000
      [] stage = "memory"           -> 2000 + r
      [] stage = "usage"            -> 3000 + r
      [] stage = "heads"            -> 4000 + r
      [] stage = "controller_init"  -> 5000 + r

failed(st, stage, r) ==
    [st EXCEPT !.ret = failure_code(stage, r), !.stage = stage]

\* the body of deeplearn_dnc_init on the state record st; status is what
\* deeplearn_init returns if it is reached
dnc_init(st, memory_size, memory_width, no_of_inputs, no_of_outputs, status) ==
    LET s0 == [st EXCEPT !.learner.no_of_inputs = no_of_inputs,
                         !.learner.no_of_outputs = no_of_outputs,
                         !.assigned = {"no_of_inputs", "no_of_outputs"}]
        pc0 == MallocResult(s0, <<"controller", 0>>)
        s1 == [Malloc(s0, <<"controller", 0>>, 0, Indeterminate)
                  EXCEPT !.learner.controller = pc0]
        s2 == deeplearn_dnc_init_memory(
                  [s1 EXCEPT !.assigned = @ \cup {"memory.size", "memory.width"}],
                  memory_size, memory_width)
        s3 == deeplearn_dnc_init_memory_usage(s2)
        s4 == deeplearn_dnc_init_heads(s3)
        s5 == [s4 EXCEPT !.controller =
                  deeplearn_init(s4.controller,
                                 controller_inputs(no_of_inputs, memory_width),
                                 controller_outputs(no_of_outputs, memory_width),
                                 status)]
    IN  IF pc0 = NULL THEN failed(s1, "controller_alloc", 0)
        ELSE IF s2.ret # 0 THEN failed(s2, "memory", s2.ret)
        ELSE IF s3.ret # 0 THEN failed(s3, "usage", s3.ret)
        ELSE IF s4.ret # 0 THEN failed(s4, "heads", s4.ret)
        ELSE IF status # 0 THEN failed(s5, "controller_init", status)
        ELSE [s5 EXCEPT !.ret = 0, !.stage = "none"]

deeplearn_dnc_init ==
    /\ pc = "Uninitialized"
    /\ \E memory_size \in DEEPLEARNDNC_USAGE_BLOCK_SIZE..MaxMemorySize,
          memory_width \in 1..MaxMemoryWidth,
          no_of_inputs \in 1..MaxInputs,
          no_of_outputs \in 1..MaxOutputs :
         \E fail_at \in 0..init_malloc_calls(memory_size) :
           \E status \in (IF fail_at = 0 THEN ControllerStatus ELSE {0}) :
             LET st == [learner |-> learner, heap |-> heap, mallocs |-> mallocs,
                        controller |-> controller, assigned |-> {},
                        n |-> 0, fail_at |-> fail_at, ret |-> 0, stage |-> "none"]
                 r  == dnc_init(st, memory_size, memory_width,
                                no_of_inputs, no_of_outputs, status)
             IN  /\ args' = [memory_size |-> memory_size, memory_width |-> memory_width,
                             no_of_inputs |-> no_of_inputs, no_of_outputs |-> no_of_outputs]
                 /\ learner' = r.learner
                 /\ heap' = r.heap
                 /\ mallocs' = r.mallocs
                 /\ controller' = r.controller
                 /\ indeterminate' = indeterminate \ r.assigned
                 /\ retval' = r.ret
                 /\ failed_stage' = r.stage
                 /\ pc' = IF r.ret = 0 THEN "Ready" ELSE "Failed"
                 /\ calls' = <<"deeplearn_dnc_init">>
    /\ UNCHANGED <<sizeof_ptr, frees, writes, ub, ncalls>>

(* ------------------------------------------------------------------ *)
(* The per-step hooks: both are empty in the source.                  *)
(* m = [learner, heap]                                                *)
(* ------------------------------------------------------------------ *)
\* a plausible slip: a hook that resets the key of every read head
update_read_heads_resetting_keys(m) ==
    [m EXCEPT !.heap = [b \in DOMAIN m.heap |->
        IF b[1] = "read_head.key"
        THEN [m.heap[b] EXCEPT !.cells = [j \in DOMAIN m.heap[b].cells |-> Zero]]
        ELSE m.heap[b]]]

deeplearn_dnc_update_read_heads(m) == m

deeplearn_dnc_update_write_heads(m) == m

(* ------------------------------------------------------------------ *)
(* deeplearn_dnc_feed_forward, deeplearn_dnc_update                   *)
(* ------------------------------------------------------------------ *)
deeplearn_dnc_feed_forward ==
    /\ pc = "Ready"
    /\ ncalls < MaxCalls
    /\ LET m == deeplearn_dnc_update_read_heads([learner |-> learner, heap |-> heap])
       IN  /\ learner' = m.learner
           /\ heap' = m.heap
    /\ controller' = deeplearn_feed_forward(controller)
    /\ calls' = <<"deeplearn_dnc_update_read_heads", "deeplearn_feed_forward">>
    /\ ncalls' = ncalls + 1
    /\ UNCHANGED <<pc, sizeof_ptr, args, retval, failed_stage, indeterminate,
                   mallocs, frees, writes, ub>>

deeplearn_dnc_update ==
    /\ pc = "Ready"
    /\ ncalls < MaxCalls
    /\ controller' = deeplearn_update(controller)
    /\ calls' = <<"deeplearn_update">>
    /\ ncalls' = ncalls + 1
    /\ UNCHANGED <<pc, sizeof_ptr, args, retval, failed_stage, learner,
                   indeterminate, heap, mallocs, frees, writes, ub>>

(* ------------------------------------------------------------------ *)
(* The caller fills the keys of the read heads (the key vectors are   *)
(* public fields of the instance).                                    *)
(* ------------------------------------------------------------------ *)
set_read_head_keys ==
    /\ pc = "Ready"
    /\ ncalls < MaxCalls
    /\ \A i \in 0..(DEEPLEARNDNC_READ_HEADS - 1) :
           /\ learner.read_head[i].key \in DOMAIN heap
           /\ heap[learner.read_head[i].key].live
    /\ \E v \in FloatVals :
         heap' = [b \in DOMAIN heap |->
                     IF \E i \in 0..(DEEPLEARNDNC_READ_HEADS - 1) :
                            b = learner.read_head[i].key
                     THEN [heap[b] EXCEPT !.cells = [j \in DOMAIN heap[b].cells |-> {v}]]
                     ELSE heap[b]]
    /\ calls' = <<"set_read_head_keys">>
    /\ ncalls' = ncalls + 1
    /\ UNCHANGED <<pc, sizeof_ptr, args, retval, failed_stage, learner,
                   indeterminate, controller, mallocs, frees, writes, ub>>

(* ------------------------------------------------------------------ *)
(* deeplearn_dnc_clear_memory                                         *)
(* ------------------------------------------------------------------ *)
\* memset(ptr, 0, nbytes) on a float buffer: the cells it zeroes
memset_block(block, nbytes) ==
    LET n == nbytes \div SizeofFloat
    IN  [block EXCEPT !.cells =
            [j \in DOMAIN block.cells |-> IF j < n THEN Zero ELSE block.cells[j]]]

memset_floats(h, ptr, nbytes) ==
    [h EXCEPT ![ptr] = memset_block(h[ptr], nbytes)]

\* the write a memset makes: where, how many elements, how many are allocated
memset_write(buffer, elems, allocated) ==
    [buffer |-> buffer, elems |-> elems, allocated |-> allocated]

\* the loop over the address vectors: memset(address[i], 0, width floats)
clear_address_vectors(l, h) ==
    LET vectors == {h[l.memory.address].cells[i] : i \in 0..(l.memory.size - 1)}
    IN  [b \in DOMAIN h |->
            IF b \in vectors
            THEN memset_block(h[b], l.memory.width * SizeofFloat)
            ELSE h[b]]

\* memset(learner->memory.usage_temporal, 0, n pointers): the array of
\* linkage-matrix pointers itself is zeroed, and with it the first `hit`
\* read-head key pointers when the write runs past the array and the
\* read_head[] array is what follows it in the instance
clear_usage_temporal(l, n, hit) ==
    [l EXCEPT !.memory.usage_temporal =
                  [h \in DOMAIN l.memory.usage_temporal |->
                      IF h < n THEN NULL ELSE l.memory.usage_temporal[h]],
              !.read_head =
                  [i \in DOMAIN l.read_head |->
                      IF i < hit THEN [l.read_head[i] EXCEPT !.key = NULL]
                      ELSE l.read_head[i]]]

deeplearn_dnc_clear_memory ==
    /\ pc = "Ready"
    /\ ncalls < MaxCalls
    /\ LET mus    == memory_usage_size(learner)
           h1     == clear_address_vectors(learner, heap)
           h2     == memset_floats(h1, learner.memory.usage, mus * sizeof_ptr)
           excess == IF mus * mus > Heads THEN mus * mus - Heads ELSE 0
           w      == {memset_write(<<"address", i>>, learner.memory.width,
                                   learner.memory.width) :
                          i \in 0..(learner.memory.size - 1)}
                     \cup {memset_write(<<"usage", 0>>,
                                        (mus * sizeof_ptr) \div SizeofFloat, mus)}
                     \cup {memset_write(<<"learner.memory.usage_temporal", 0>>,
                                        mus * mus, Heads)}
       IN  /\ heap' = h2
           /\ writes' = w
           /\ ub' = ub \cup {"write past the end of " \o x.buffer[1] :
                              x \in {y \in w : y.elems > y.allocated}}
           \* what lies past usage_temporal[] is overwritten: the words that
           \* follow it in the instance, or storage outside the modelled fields
           /\ \E hit \in {0, Min(excess, DEEPLEARNDNC_READ_HEADS)} :
                learner' = clear_usage_temporal(learner, mus * mus, hit)
    /\ calls' = <<"memset">>
    /\ ncalls' = ncalls + 1
    /\ UNCHANGED <<pc, sizeof_ptr, args, retval, failed_stage, indeterminate,
                   controller, mallocs, frees>>

(* ------------------------------------------------------------------ *)
(* free(ptr).  f = [heap, frees, ub]                                  *)
(* ------------------------------------------------------------------ *)
Free(f, ptr) ==
    IF ptr = NULL THEN f
    ELSE IF ptr = UNINIT
    THEN [f EXCEPT !.ub = @ \cup {"free of an uninitialised pointer"}]
    ELSE IF ~ f.heap[ptr].live
    THEN [f EXCEPT !.ub = @ \cup {"double free"}]
    ELSE [f EXCEPT !.heap[ptr].live = FALSE,
                   !.frees = Append(@, ptr)]

(* ------------------------------------------------------------------ *)
(* deeplearn_dnc_free_memory                                          *)
(* ------------------------------------------------------------------ *)
\* the loop "for (i = 0; i < size; i++) free(address[i])"; the slots of a
\* table hold distinct vectors, NULL or indeterminate values
free_memory_vectors(l, f) ==
    LET cells == f.heap[l.memory.address].cells
        ptrs  == [i \in 1..l.memory.size |-> cells[i - 1]]
        IsLive(p) == p \in DOMAIN f.heap /\ f.heap[p].live
        freed == SelectSeq(ptrs, IsLive)
    IN  [f EXCEPT
            !.heap = [b \in DOMAIN f.heap |->
                        IF \E i \in 1..Len(freed) : freed[i] = b
                        THEN [f.heap[b] EXCEPT !.live = FALSE]
                        ELSE f.heap[b]],
            !.frees = f.frees \o freed,
            !.ub = f.ub
                   \cup (IF \E i \in 1..Len(ptrs) : ptrs[i] = UNINIT
                         THEN {"free of an uninitialised pointer"} ELSE {})
                   \cup (IF \E i \in 1..Len(ptrs) :
                               ptrs[i] \in DOMAIN f.heap /\ ~ f.heap[ptrs[i]].live
                         THEN {"double free"} ELSE {})]

deeplearn_dnc_free_memory(l, f, indet) ==
    LET f1 == IF "memory.size" \in indet
              THEN [f EXCEPT !.ub = @ \cup {"read of the uninitialised memory.size"}]
              ELSE IF l.memory.address = NULL
              THEN [f EXCEPT !.ub = @ \cup {"read through the NULL address table"}]
              ELSE free_memory_vectors(l, f)
    IN  Free(f1, l.memory.address)

(* ------------------------------------------------------------------ *)
(* deeplearn_dnc_free_memory_usage                                    *)
(* ------------------------------------------------------------------ *)
RECURSIVE free_usage_temporal(_, _, _)
free_usage_temporal(l, f, i) ==
    IF i >= DEEPLEARNDNC_READ_HEADS + DEEPLEARNDNC_WRITE_HEADS
    THEN f
    ELSE free_usage_temporal(l, Free(f, l.memory.usage_temporal[i]), i + 1)

deeplearn_dnc_free_memory_usage(l, f) ==
    free_usage_temporal(l, Free(f, l.memory.usage), 0)

(* ------------------------------------------------------------------ *)
(* deeplearn_dnc_free_heads                                           *)
(* ------------------------------------------------------------------ *)
RECURSIVE free_read_heads(_, _, _)
free_read_heads(l, f, i) ==
    IF i >= DEEPLEARNDNC_READ_HEADS
    THEN f
    ELSE free_read_heads(l, Free(f, l.read_head[i].key), i + 1)

RECURSIVE free_write_heads(_, _, _)
free_write_heads(l, f, i) ==
    IF i >= DEEPLEARNDNC_WRITE_HEADS
    THEN f
    ELSE free_write_heads(l,
             Free(Free(Free(f, l.write_head[i].write),
                       l.write_head[i].erase),
                  l.write_head[i].key),
             i + 1)

deeplearn_dnc_free_heads(l, f) ==
    free_write_heads(l, free_read_heads(l, f, 0), 0)

(* ------------------------------------------------------------------ *)
(* deeplearn_dnc_free.  The controller is handed to deeplearn_free    *)
(* (deeplearn.c); deeplearn_dnc_free itself never passes the          *)
(* controller object that init allocated to free().                   *)
(* ------------------------------------------------------------------ *)
\* a callee of deeplearn_dnc_free is entered
Call(f, name) == [f EXCEPT !.calls = Append(@, name)]

free_controller(l, f) ==
    LET g == Call(f, "deeplearn_free")
    IN  IF l.controller \in {NULL, UNINIT}
        THEN [g EXCEPT !.ub = @ \cup {"deeplearn_free of an unallocated controller"}]
        ELSE [g EXCEPT !.controller = deeplearn_free(@)]

\* the four calls of deeplearn_dnc_free taken from the last to the first
dnc_free_heads_first(l, f, indet) ==
    LET f1 == deeplearn_dnc_free_heads(l, Call(f, "deeplearn_dnc_free_heads"))
        f2 == deeplearn_dnc_free_memory_usage(l,
                  Call(f1, "deeplearn_dnc_free_memory_usage"))
        f3 == deeplearn_dnc_free_memory(l,
                  Call(f2, "deeplearn_dnc_free_memory"), indet)
    IN  free_controller(l, f3)

\* the body of deeplearn_dnc_free: bank, usage tracker, heads, controller
dnc_free(l, f, indet) ==
    LET f1 == deeplearn_dnc_free_memory(l,
                  Call(f, "deeplearn_dnc_free_memory"), indet)
        f2 == deeplearn_dnc_free_memory_usage(l,
                  Call(f1, "deeplearn_dnc_free_memory_usage"))
        f3 == deeplearn_dnc_free_heads(l, Call(f2, "deeplearn_dnc_free_heads"))
    IN  free_controller(l, f3)

deeplearn_dnc_free ==
    /\ pc \in {"Ready", "Failed"}
    /\ LET f0 == [heap |-> heap, frees |-> frees, ub |-> ub,
                  calls |-> <<>>, controller |-> controller]
           f4 == dnc_free(learner, f0, indeterminate)
       IN  /\ heap' = f4.heap
           /\ frees' = f4.frees
           /\ ub' = f4.ub
           /\ calls' = f4.calls
           /\ controller' = f4.controller
           \* undefined behaviour inside free may end the process
           /\ pc' \in (IF f4.ub = ub THEN {"Released"} ELSE {"Released", "Crashed"})
    /\ UNCHANGED <<sizeof_ptr, args, retval, failed_stage, learner, indeterminate,
                   mallocs, writes, ncalls>>

Next ==
    \/ deeplearn_dnc_init
    \/ deeplearn_dnc_feed_forward
    \/ deeplearn_dnc_update
    \/ set_read_head_keys
    \/ deeplearn_dnc_clear_memory
    \/ deeplearn_dnc_free

Spec == Init /\ [][Next]_vars

(* ================================================================== *)
(* Properties                                                         *)
(* ================================================================== *)

\* the address vector that slot i of the bank points to
AddressVector(i) == heap[learner.memory.address].cells[i]

AllZero(block) == \A j \in DOMAIN heap[block].cells : heap[block].cells[j] = Zero

BankIsZero ==
    \A i \in 0..(learner.memory.size - 1) : AllZero(AddressVector(i))

(* C1: after a successful init the bank's size is the largest multiple of
   the usage block size that does not exceed the requested memory_size,
   and the bank's width is the requested memory_width. *)
C1_SizeRoundedDown ==
    pc = "Ready" =>
        /\ learner.memory.size % DEEPLEARNDNC_USAGE_BLOCK_SIZE = 0
        /\ learner.memory.size <= args.memory_size
        /\ args.memory_size < learner.memory.size + DEEPLEARNDNC_USAGE_BLOCK_SIZE
        /\ learner.memory.width = args.memory_width
        /\ DOMAIN heap[learner.memory.address].cells = 0..(learner.memory.size - 1)

\* a size that is not a multiple of the block was asked for and rounded down
C1_Witness ==
    /\ pc = "Ready"
    /\ args.memory_size = DEEPLEARNDNC_USAGE_BLOCK_SIZE + 4
    /\ learner.memory.size = DEEPLEARNDNC_USAGE_BLOCK_SIZE
    /\ learner.memory.width = 2

(* C2: after a successful init and before any other operation, every
   scalar of the memory bank reads as zero. *)
C2_BankZeroAfterInit ==
    (pc = "Ready" /\ ncalls = 0) => BankIsZero

(* C3: after clear_memory every element of every address vector, of the
   usage vector and of every linkage matrix allocated by init reads as
   zero. *)
C3_ClearZeroesEverything ==
    (pc = "Ready" /\ calls = <<"memset">>) =>
        /\ BankIsZero
        /\ AllZero(<<"usage", 0>>)
        /\ \A h \in 0..(Heads - 1) : AllZero(<<"usage_temporal", h>>)

\* the subsystem a step of init belongs to
SubsystemOf(stage) ==
    CASE stage = "memory" -> "bank"
      [] stage = "usage" -> "usage"
      [] stage = "heads" -> "heads"
      [] stage \in {"controller_alloc", "controller_init"} -> "controller"

\* the range of codes under a subsystem's tag
SubsystemRange(subsystem) ==
    CASE subsystem = "bank" -> 2000..2999
      [] subsystem = "usage" -> 3000..3999
      [] subsystem = "heads" -> 4000..4999
      [] subsystem = "controller" -> 5000..5999

(* C4 as stated: a failed init returns a nonzero code in the one range of
   the subsystem that failed (bank, usage, heads, controller). *)
C4_OneRangePerSubsystem ==
    pc = "Failed" =>
        /\ retval # 0
        /\ retval \in SubsystemRange(SubsystemOf(failed_stage))

(* C4, amended: a failed init returns 1000 when the controller object
   cannot be allocated, 2001..2002 for the bank, 3001..3002 for the usage
   tracker, 4001..4004 for the heads, and 5000 + s when the controller
   network's initialiser returns the status s # 0; the bank, usage and
   heads codes never coincide with each other or with 1000, and 5000 + s
   lies in 5000..5999 when 0 < s < 1000. *)
C4_TaggedFailureCodes ==
    pc = "Failed" =>
        /\ retval # 0
        /\ failed_stage = "controller_alloc" => retval = 1000
        /\ failed_stage = "memory" => retval \in 2001..2002
        /\ failed_stage = "usage" => retval \in 3001..3002
        /\ failed_stage = "heads" => retval \in 4001..4004
        /\ failed_stage = "controller_init" =>
              /\ controller.status # 0
              /\ retval = 5000 + controller.status
              /\ controller.status \in 1..999 => retval \in 5000..5999
        /\ failed_stage \in {"controller_alloc", "memory", "usage", "heads",
                             "controller_init"}

\* the last write head's key vector could not be allocated
C4_Witness ==
    /\ pc = "Failed"
    /\ failed_stage = "heads"
    /\ retval = 4004

\* every pointer the instance holds, with the slots of the address table
InstancePointers ==
    {learner.controller, learner.memory.address, learner.memory.usage}
    \cup {learner.memory.usage_temporal[h] : h \in 0..(Heads - 1)}
    \cup {learner.read_head[i].key : i \in 0..(DEEPLEARNDNC_READ_HEADS - 1)}
    \cup UNION {{learner.write_head[i].write, learner.write_head[i].erase,
                 learner.write_head[i].key} :
                    i \in 0..(DEEPLEARNDNC_WRITE_HEADS - 1)}
    \cup (IF learner.memory.address \in DOMAIN heap
          THEN {heap[learner.memory.address].cells[i] :
                    i \in DOMAIN heap[learner.memory.address].cells}
          ELSE {})

(* C5: a failed init leaves every pointer that was not allocated as a null
   marker, so that a release frees only allocated or null pointers and
   meets no uninitialised one. *)
C5_FailedInitIsReleasable ==
    /\ pc = "Failed" => UNINIT \notin InstancePointers
    /\ (retval # 0 /\ pc \in {"Released", "Crashed"}) => ub = {}

\* the blocks of a sequence, as a set
Range(seq) == {seq[i] : i \in 1..Len(seq)}

Occurrences(seq, x) == Cardinality({i \in 1..Len(seq) : seq[i] = x})

(* C6: after a successful init, any feed_forward, update and clear_memory
   calls, and one release, every block init allocated has been freed
   exactly once. *)
C6_ReleaseFreesEveryBlockOnce ==
    (retval = 0 /\ pc = "Released") =>
        /\ Len(frees) = Len(mallocs)
        /\ \A b \in Range(mallocs) : Occurrences(frees, b) = 1

(* C7: init hands the controller network an input width of
   no_of_inputs + memory_width*READ_HEADS and an output width of
   no_of_outputs + memory_width*WRITE_HEADS + (memory_width+3)*READ_HEADS,
   and the instance records the caller's no_of_inputs and no_of_outputs. *)
C7_ControllerWidths ==
    /\ pc # "Uninitialized" =>
          /\ learner.no_of_inputs = args.no_of_inputs
          /\ learner.no_of_outputs = args.no_of_outputs
    /\ (pc # "Uninitialized" /\ failed_stage \in {"none", "controller_init"}) =>
          /\ controller.no_of_inputs =
                args.no_of_inputs + args.memory_width * DEEPLEARNDNC_READ_HEADS
          /\ controller.no_of_outputs =
                args.no_of_outputs + args.memory_width * DEEPLEARNDNC_WRITE_HEADS
                + (args.memory_width + 3) * DEEPLEARNDNC_READ_HEADS

\* two read heads and one write head of width 2, 2 inputs and 1 output
C7_Witness ==
    /\ pc = "Ready"
    /\ args.memory_width = 2 /\ args.no_of_inputs = 2 /\ args.no_of_outputs = 1
    /\ controller.initialised
    /\ controller.no_of_inputs = 6
    /\ controller.no_of_outputs = 13

\* a step of clear_memory
ClearMemoryStep == calls' = <<"memset">> /\ ncalls' = ncalls + 1

\* the head vectors, as the heap holds them
HeadVectors(h) ==
    [b \in {x \in DOMAIN h : x[1] \in {"read_head.key", "write_head.write",
                                        "write_head.erase", "write_head.key"}}
        |-> h[b]]

(* C8: clear_memory changes only the contents of the bank and of the usage
   tracker: every field of the instance (the controller reference, the bank's
   size and width, every pointer), the controller network and the head
   vectors are as before, and the instance stays Ready. *)
C8_ClearMemoryFrame ==
    [][ClearMemoryStep =>
          /\ learner' = learner
          /\ controller' = controller
          /\ HeadVectors(heap') = HeadVectors(heap)
          /\ pc' = "Ready"]_vars

\* a step in which the controller network ran a feed-forward pass
FeedForwardStep == controller'.passes # controller.passes

(* C9: a feed_forward on a Ready instance leaves the bank, the usage vector,
   the linkage matrices, every head vector and every field of the instance
   as they were, calls the read-head hook and then the controller's
   feed-forward pass exactly once, and leaves the instance Ready. *)
C9_FeedForwardFrame ==
    [][FeedForwardStep =>
          /\ pc = "Ready" /\ pc' = "Ready"
          /\ heap' = heap
          /\ learner' = learner
          /\ controller'.passes = controller.passes + 1
          /\ calls' = <<"deeplearn_dnc_update_read_heads", "deeplearn_feed_forward">>]_vars

\* a read-head key was set to a nonzero value and a pass was run
C9_Witness ==
    /\ pc = "Ready"
    /\ controller.passes = 1
    /\ \E i \in 0..(DEEPLEARNDNC_READ_HEADS - 1) :
           heap[<<"read_head.key", i>>].cells[0] = {1}

\* the subsystem a heap block belongs to
BlockSubsystem(b) ==
    CASE b[1] = "controller" -> "controller"
      [] b[1] \in {"address_table", "address"} -> "bank"
      [] b[1] \in {"usage", "usage_temporal"} -> "usage"
      [] OTHER -> "heads"

\* the order of acquisition as the description states it
StatedRank(subsystem) ==
    CASE subsystem = "bank" -> 1
      [] subsystem = "usage" -> 2
      [] subsystem = "heads" -> 3
      [] subsystem = "controller" -> 4

\* the order of the steps of init
StepRank(step) ==
    CASE step = "controller_alloc" -> 0
      [] step = "memory" -> 1
      [] step = "usage" -> 2
      [] step = "heads" -> 3
      [] step = "controller_init" -> 4
      [] step = "none" -> 5

BlockStep(b) ==
    CASE b[1] = "controller" -> "controller_alloc"
      [] b[1] \in {"address_table", "address"} -> "memory"
      [] b[1] \in {"usage", "usage_temporal"} -> "usage"
      [] OTHER -> "heads"

(* C10 as stated: init acquires bank, usage tracker, heads, controller in that
   order and stops at the first failure: when a subsystem fails nothing of a
   later subsystem has been allocated, and init returns 0 only if all
   succeeded. *)
C10_StatedOrder ==
    pc # "Uninitialized" =>
        /\ \A i \in 1..(Len(mallocs) - 1) :
              StatedRank(BlockSubsystem(mallocs[i]))
                  <= StatedRank(BlockSubsystem(mallocs[i + 1]))
        /\ failed_stage # "none" =>
              \A i \in 1..Len(mallocs) :
                  StatedRank(BlockSubsystem(mallocs[i]))
                      <= StatedRank(SubsystemOf(failed_stage))
        /\ retval = 0 <=> failed_stage = "none"

(* C10, amended: init allocates the controller object first, then the bank,
   the usage tracker and the heads, and initialises the controller network
   last; it stops at the first step that fails, so nothing of a later step has
   been allocated and the network was not initialised by then; it returns 0
   only if every allocation succeeded and the network was initialised. *)
C10_AcquisitionOrder ==
    pc # "Uninitialized" =>
        /\ \A i \in 1..(Len(mallocs) - 1) :
              StepRank(BlockStep(mallocs[i])) <= StepRank(BlockStep(mallocs[i + 1]))
        /\ failed_stage # "none" =>
              /\ \A i \in 1..Len(mallocs) :
                    StepRank(BlockStep(mallocs[i])) <= StepRank(failed_stage)
              /\ ~ controller.initialised
              /\ (pc = "Failed" /\ failed_stage # "controller_init") =>
                    controller = controller0
        /\ retval = 0 <=> failed_stage = "none"
        /\ retval = 0 =>
              /\ Len(mallocs) = init_malloc_calls(args.memory_size)
              /\ controller.initialised

\* the usage tracker failed on a linkage matrix: bank allocated, no head yet
C10_Witness ==
    /\ pc = "Failed"
    /\ retval = 3002
    /\ <<"address", DEEPLEARNDNC_USAGE_BLOCK_SIZE - 1>> \in Range(mallocs)
    /\ <<"usage", 0>> \in Range(mallocs)
    /\ <<"read_head.key", 0>> \notin Range(mallocs)


\* the order of release as the description states it
StatedReleaseRank(subsystem) ==
    CASE subsystem = "heads" -> 1
      [] subsystem = "usage" -> 2
      [] subsystem = "bank" -> 3
      [] subsystem = "controller" -> 4

\* the order of the calls of deeplearn_dnc_free
ReleaseRank(subsystem) ==
    CASE subsystem = "bank" -> 1
      [] subsystem = "usage" -> 2
      [] subsystem = "heads" -> 3
      [] subsystem = "controller" -> 4

(* C11 as stated: release frees the subsystems in the reverse of their
   allocation order: the heads first, then the usage tracker, then the memory
   bank, and the controller last. *)
C11_StatedReleaseOrder ==
    (retval = 0 /\ pc = "Released") =>
        \A i \in 1..(Len(frees) - 1) :
            StatedReleaseRank(BlockSubsystem(frees[i]))
                <= StatedReleaseRank(BlockSubsystem(frees[i + 1]))

(* C11, amended: release frees the memory bank first, then the usage tracker,
   then the heads, and hands the controller to deeplearn_free last: the bank,
   the usage tracker and the heads go in the order init allocated them, not in
   the reverse; release itself passes only blocks of these three to free(). *)
C11_ReleaseOrder ==
    (retval = 0 /\ pc = "Released") =>
        /\ \A i \in 1..(Len(frees) - 1) :
              ReleaseRank(BlockSubsystem(frees[i]))
                  <= ReleaseRank(BlockSubsystem(frees[i + 1]))
        /\ Len(frees) > 0
        /\ BlockSubsystem(frees[1]) = "bank"
        /\ BlockSubsystem(frees[Len(frees)]) = "heads"
        /\ calls = <<"deeplearn_dnc_free_memory", "deeplearn_dnc_free_memory_usage",
                     "deeplearn_dnc_free_heads", "deeplearn_free">>
        /\ controller.freed

\* a released instance whose bank, usage tracker and heads were freed and
\* whose controller went to deeplearn_free
C11_Witness ==
    /\ pc = "Released"
    /\ retval = 0
    /\ {BlockSubsystem(frees[i]) : i \in 1..Len(frees)} = {"bank", "usage", "heads"}
    /\ <<"usage_temporal", 0>> \in Range(frees)
    /\ controller.freed

(* C12: every write of clear_memory goes to a buffer that init allocated and
   stays within the length init allocated for it: at most width floats per
   address vector, size/USAGE_BLOCK_SIZE floats in the usage vector and
   (size/USAGE_BLOCK_SIZE)^2 floats in a linkage matrix; the array of linkage
   matrix pointers and the other fields of the instance are never written. *)
C12_ClearWritesInBounds ==
    \A w \in writes :
        /\ w.buffer \in Range(mallocs)
        /\ w.buffer[1] # "learner.memory.usage_temporal"
        /\ w.elems <= w.allocated
        /\ w.allocated =
              CASE w.buffer[1] = "address" -> learner.memory.width
                [] w.buffer[1] = "usage" -> memory_usage_size(learner)
                [] OTHER -> memory_usage_size(learner) * memory_usage_size(learner)

=============================================================================
